---- MODULE Spec2Model ----
(***************************************************************************)
(* A model of slobot (src/slobot/slobot.py): the Router, its route table,  *)
(* the Socket transports and their receive threads.                        *)
(*                                                                         *)
(* Python strings are modelled as tuples of one-character strings so that  *)
(* slicing (s[0:4]), strip() and "<{0}> {1}".format(...) are computed.     *)
(***************************************************************************)
EXTENDS Integers, Sequences, FiniteSets, TLC

VARIABLES
    routes,     \* Router._routes: the list of route groups (config.routes)
    readonly,   \* Socket.readonly of every socket
    channels,   \* Socket._channels of every socket
    nreg,       \* number of register(chan) calls made on every socket
    mainpc,     \* position of main(): "config", "built", "started"
    thread,     \* per socket: "none" or "running" (its run() thread)
    connected,  \* per socket: the welcome / session_start handler has run
    joins,      \* per socket: number of join calls made per channel
    stack,      \* per socket thread: the frames of handlers in progress
    rcv,        \* per socket: its Socket.receive invocations, in order
    calls,      \* per socket: the send / users calls made on it, in order
    budget,     \* the number of events the networks and the fifo still deliver
    disp,       \* the direct calls of Router.dispatch: <<>>, or the last one
    written,    \* per fifo socket: the lines written to its path, in order
    handle,     \* per fifo socket: the lines its open handle has read ahead
    reopened    \* per fifo socket: why FIFO.run last went back to open()

vars == <<routes, readonly, channels, nreg, mainpc, thread,
          connected, joins, stack, rcv, calls, budget, disp,
          written, handle, reopened>>

\* the state of FIFO.run
fifoVars == <<written, handle, reopened>>

-----------------------------------------------------------------------------
(* Bounds of the model *)

\* route groups in the route table
MaxRoutes == 2
\* events delivered to the sockets in one behaviour
MaxRecv == 2

-----------------------------------------------------------------------------
(* Python values *)

\* None, as a value comparable with any string or tuple of the model
None == <<"None">>

Min(x, y) == IF x < y THEN x ELSE y

\* s[0:n]
Slice(s, n) == SubSeq(s, 1, Min(n, Len(s)))

\* '!who'
WhoToken == <<"!", "w", "h", "o">>

\* some nicks and bodies seen on the networks
NickBob == <<"b", "o", "b">>
NickWhoami == <<"!", "w", "h", "o", "a", "m", "i">>
BodyHi == <<"h", "i">>
BodyWho == <<"!", "w", "h", "o">>

\* the lines a writer puts into the fifo
LinePlain == <<"h", "i", "\n">>
LinePadded == <<" ", "h", "i", " ", "\n">>
RawLines == { LinePlain, LinePadded }

\* what one read of the handle returns: one line, or two lines written together
Chunks == { <<LinePlain>>, <<LinePadded, LinePlain>> }

Whitespace == {" ", "\n", "\t", "\r"}

RECURSIVE LStrip(_)
LStrip(s) ==
    IF s = <<>> THEN <<>>
    ELSE IF Head(s) \in Whitespace THEN LStrip(Tail(s)) ELSE s

RECURSIVE RStrip(_)
RStrip(s) ==
    IF s = <<>> THEN <<>>
    ELSE IF s[Len(s)] \in Whitespace THEN RStrip(SubSeq(s, 1, Len(s) - 1)) ELSE s

\* line.strip()
Strip(s) == RStrip(LStrip(s))

\* "<{0}> {1}".format(sender, contents)
Prefixed(sender, contents) == <<"<">> \o sender \o <<">", " ">> \o contents

-----------------------------------------------------------------------------
(* Configuration *)

\* the sockets section of the configuration: name -> type
Keys == {"a", "b", "c", "f"}

SocketType == [a |-> "irc", b |-> "xmpp", c |-> "console", f |-> "fifo"]

\* channel names: two IRC-style names and the name FIFO.run hardcodes
ChanX == <<"#", "x">>
ChanY == <<"#", "y">>
ChanStar == <<"*">>

ChanNames == {ChanX, ChanY, ChanStar}

\* chan[0] == '#'
StartsWithHash(chan) == chan[1] = "#"

\* A route group is a dict: a tuple of <<key, chan>> items in insertion order,
\* with no key twice.
IsDict(g) == \A i, j \in 1..Len(g) : g[i][1] = g[j][1] => i = j

\* route.get(key)
Get(route, key) ==
    IF \E i \in 1..Len(route) : route[i][1] = key
    THEN route[CHOOSE i \in 1..Len(route) : route[i][1] = key][2]
    ELSE None

\* The checks Config.__init__ makes on one route group.
ValidRoute(g) ==
    \A i \in 1..Len(g) :
        /\ g[i][1] \in Keys
        /\ SocketType[g[i][1]] = "irc" => StartsWithHash(g[i][2])

\* The route groups of the configurations explored with running threads.
RouteGroups ==
    { << <<"a", ChanX>>, <<"b", ChanY>> >>,
      << <<"f", ChanStar>>, <<"a", ChanX>>, <<"c", ChanStar>> >> }

RECURSIVE SeqsUpTo(_, _)
SeqsUpTo(S, n) ==
    IF n = 0 THEN { <<>> }
    ELSE LET shorter == SeqsUpTo(S, n - 1)
         IN  shorter \cup { Append(s, x) : s \in shorter, x \in S }

RouteTables == SeqsUpTo(RouteGroups, MaxRoutes)

\* The route groups of the tables Router.dispatch is called on directly.
DispatchGroups ==
    RouteGroups \cup
    { << <<"b", ChanX>>, <<"a", ChanY>>, <<"c", ChanX>> >>,
      << <<"a", ChanY>>, <<"f", ChanX>> >>,
      << <<"c", ChanY>> >>,
      << >> }

DispatchTables == SeqsUpTo(DispatchGroups, MaxRoutes)

-----------------------------------------------------------------------------
(* Socket *)

\* Socket.__init__: readonly defaults to False
SocketInit(ro) == [readonly |-> ro, channels |-> {}]

\* Socket.register: self._channels.add(chan)
register(chs, chan) == chs \cup {chan}

\* What Socket.receive does with a message on a socket whose flag is ro:
\* "users", "receive", or "raise" (None[0:4] is a TypeError).
SocketReceive(ro, message) ==
    IF message[1] # "message" THEN "receive"
    ELSE IF message[2] = None THEN "raise"
    ELSE IF Slice(message[2], 4) = WhoToken /\ ~ro THEN "users"
    ELSE "receive"

-----------------------------------------------------------------------------
(* Router *)

\* socket_types[conf['type']](self, key, conf): no readonly argument is passed
RouterSockets == [k \in Keys |-> SocketInit(FALSE)]

\* the (dest_key, dest_chan) items one route group yields for source key src
RECURSIVE GroupDests(_, _, _)
GroupDests(route, src, ro) ==
    IF route = <<>> THEN <<>>
    ELSE LET item == Head(route)
             rest == GroupDests(Tail(route), src, ro)
         IN  IF src # item[1] /\ ~ro[item[1]] THEN <<item>> \o rest ELSE rest

\* dispatch without its test of dest.readonly
RECURSIVE dispatchIgnoringReadonly(_, _, _, _)
dispatchIgnoringReadonly(rts, ro, src, channel) ==
    IF rts = <<>> THEN <<>>
    ELSE LET rest == dispatchIgnoringReadonly(Tail(rts), ro, src, channel)
         IN  IF Get(Head(rts), src) = channel
             THEN GroupDests(Head(rts), src, [k \in Keys |-> FALSE]) \o rest
             ELSE rest

\* dispatch testing only that the route group holds source.key
RECURSIVE dispatchAnyChannel(_, _, _, _)
dispatchAnyChannel(rts, ro, src, channel) ==
    IF rts = <<>> THEN <<>>
    ELSE LET rest == dispatchAnyChannel(Tail(rts), ro, src, channel)
         IN  IF Get(Head(rts), src) # None
             THEN GroupDests(Head(rts), src, ro) \o rest
             ELSE rest

\* dispatch without its test source.key != dest_key
RECURSIVE dispatchWithSource(_, _, _, _)
dispatchWithSource(rts, ro, src, channel) ==
    IF rts = <<>> THEN <<>>
    ELSE LET rest == dispatchWithSource(Tail(rts), ro, src, channel)
         IN  IF Get(Head(rts), src) = channel
             THEN GroupDests(Head(rts), "", ro) \o rest
             ELSE rest

\* Router.dispatch(source, channel) over route table rts with readonly flags ro
RECURSIVE dispatch(_, _, _, _)
dispatch(rts, ro, src, channel) ==
    IF rts = <<>> THEN <<>>
    ELSE LET rest == dispatch(Tail(rts), ro, src, channel)
         IN  IF Get(Head(rts), src) = channel
             THEN GroupDests(Head(rts), src, ro) \o rest
             ELSE rest

\* a route group registered with every channel of the group on every member
RegisterRouteOnMembers(chs, route) ==
    [k \in Keys |->
        IF \E i \in 1..Len(route) : route[i][1] = k
        THEN chs[k] \cup { route[i][2] : i \in 1..Len(route) }
        ELSE chs[k]]

\* Router.__init__: the register calls, folded over the routes in order
RECURSIVE RegisterRoute(_, _)
RegisterRoute(chs, route) ==
    IF route = <<>> THEN chs
    ELSE RegisterRoute(
            [chs EXCEPT ![Head(route)[1]] = register(@, Head(route)[2])],
            Tail(route))

\* only the first route group registered when the sockets are built
RegisterFirstOnly(chs, rts) ==
    IF rts = <<>> THEN chs ELSE RegisterRoute(chs, Head(rts))

RECURSIVE RegisterAll(_, _)
RegisterAll(chs, rts) ==
    IF rts = <<>> THEN chs
    ELSE RegisterAll(RegisterRoute(chs, Head(rts)), Tail(rts))

\* the number of register(chan) calls Router.__init__ makes on socket k
RECURSIVE CountBindings(_, _, _)
CountBindings(rts, k, chan) ==
    IF rts = <<>> THEN 0
    ELSE (IF Get(Head(rts), k) = chan THEN 1 ELSE 0)
         + CountBindings(Tail(rts), k, chan)

-----------------------------------------------------------------------------
(* Transports: send and users of each variant *)

\* A message is <<kind, sender, text>>: message[1] here is message[0] in the
\* Python source, message[2] is message[1], message[3] is message[2].

\* rosters a network may report for a channel
Rosters == { <<"u1">>, <<"u1", "u2">> }

\* the outcome of a call that raises an exception
Raise == <<"raise">>

\* ', '.join(users)
RECURSIVE JoinNames(_)
JoinNames(users) ==
    IF users = <<>> THEN <<>>
    ELSE IF Len(users) = 1 THEN <<users[1]>>
    ELSE <<users[1], ", ">> \o JoinNames(Tail(users))

\* ('message', "Users on {0}: {1}.".format(dest.key, ', '.join(users)))
UsersReply(destKey, users) ==
    <<"message", <<"Users on ", destKey, ": ">> \o JoinNames(users) \o <<".">> >>

\* IRC.send: what goes on the wire, or Raise when the tuple does not unpack
IRCSend(chan, message) ==
    IF Len(message) # 3 THEN Raise
    ELSE LET typ == message[1]
             sender == message[2]
             contents == IF sender # None THEN Prefixed(sender, message[3])
                         ELSE message[3]
         IN  IF typ = "message" THEN <<"privmsg", chan, contents>>
             ELSE IF typ = "notice" THEN <<"notice", chan, contents>>
             ELSE None

\* XMPP.send: the group-chat stanza, or Raise when message[2] does not exist
XMPPSend(channel, message) ==
    IF message[2] # None
    THEN IF Len(message) < 3 THEN Raise
         ELSE <<"groupchat", channel, Prefixed(message[2], message[3])>>
    ELSE IF Len(message) < 3 THEN Raise
         ELSE <<"groupchat", channel, message[3]>>

\* Console.send: print("[{0}] {1}".format(chan, message))
ConsoleSend(chan, message) == <<"print", chan, message>>

\* FIFO.send: return
FIFOSend(chan, message) == None

\* The outcomes of dest.send(chan, message): the transmitted value, or Raise.
\* The protocol client of an IRC or XMPP socket may fail on any transmission.
SendOutcomes(k, chan, message) ==
    CASE SocketType[k] = "irc" ->
            IF IRCSend(chan, message) \in {Raise, None}
            THEN {IRCSend(chan, message)}
            ELSE {IRCSend(chan, message), Raise}
      [] SocketType[k] = "xmpp" ->
            IF XMPPSend(chan, message) = Raise THEN {Raise}
            ELSE {XMPPSend(chan, message), Raise}
      [] SocketType[k] = "console" -> {ConsoleSend(chan, message)}
      [] SocketType[k] = "fifo" -> {FIFOSend(chan, message)}

\* The outcomes of dest.users(channel).  Socket.users returns None; IRC.users
\* returns the roster, or None after a caught lookup failure; XMPP.users
\* returns whatever the plugin's getRoster gives, and catches nothing.
UsersOutcomes(k) ==
    CASE SocketType[k] = "irc" -> Rosters \cup {None}
      [] SocketType[k] = "xmpp" -> Rosters \cup {None, Raise}
      [] OTHER -> {None}

-----------------------------------------------------------------------------
(* Threads *)

\* The event loop of a socket's thread hands over the next event only when
\* the handler of the previous one has returned: receive is a synchronous call.
LoopReady(k) == stack[k] = <<>>

SetStatus(k, n, st) == [rcv EXCEPT ![k][n].status = st]

\* An exception leaves the handler running on thread k and unwinds into
\* FIFO.run, which catches it and reopens the path, or into the protocol
\* client's event loop.  A loop that does not survive it is a thread that
\* takes no further step.
Escapes(k) == stack' = [stack EXCEPT ![k] = <<>>]

\* The handler on top of thread k's stack returns.
Returns(k) == stack' = [stack EXCEPT ![k] = Tail(@)]

\* a call made on a destination socket while serving invocation n of src
Call(op, chan, message, src, n, out) ==
    [op |-> op, chan |-> chan, msg |-> message, src |-> src, n |-> n, out |-> out]

\* Socket.receive(chan, message) called on thread k, up to the first call
\* Router.receive or Router.users make on a destination.
Deliver(k, chan, message) ==
    /\ LET how == SocketReceive(readonly[k], message)
           n == Len(rcv[k]) + 1
           dests == dispatch(routes, readonly, k, chan)
           entry(st) == [chan |-> chan, msg |-> message, how |-> how, status |-> st]
       IN  IF how = "raise"
           THEN /\ rcv' = [rcv EXCEPT ![k] = Append(@, entry("raised"))]
                /\ Escapes(k)
           ELSE IF dests = <<>>
           THEN /\ rcv' = [rcv EXCEPT ![k] = Append(@, entry("returned"))]
                /\ UNCHANGED stack
           ELSE /\ rcv' = [rcv EXCEPT ![k] = Append(@, entry("running"))]
                /\ stack' = [stack EXCEPT ![k] =
                       << [n |-> n, mode |-> how, pending |-> dests,
                           tested |-> None] >> \o @]
    /\ UNCHANGED <<routes, readonly, channels, nreg, mainpc, thread,
                   connected, joins, calls, disp>>

\* Socket.receive called by a handler of the protocol client for one event
Receive(k, chan, message) ==
    /\ budget > 0
    /\ budget' = budget - 1
    /\ Deliver(k, chan, message)
    /\ UNCHANGED fifoVars

-----------------------------------------------------------------------------
(* main(): Config, Router(config), router.start() *)

\* The state once Config(args.config) has returned: a validated configuration.
Configured ==
    /\ routes \in RouteTables
    /\ \A i \in 1..Len(routes) : IsDict(routes[i]) /\ ValidRoute(routes[i])
    /\ readonly = [k \in Keys |-> FALSE]
    /\ channels = [k \in Keys |-> {}]
    /\ nreg = [k \in Keys |-> [c \in ChanNames |-> 0]]
    /\ mainpc = "config"
    /\ thread = [k \in Keys |-> "none"]
    /\ connected = [k \in Keys |-> FALSE]
    /\ joins = [k \in Keys |-> [c \in ChanNames |-> 0]]
    /\ stack = [k \in Keys |-> <<>>]
    /\ rcv = [k \in Keys |-> <<>>]
    /\ calls = [k \in Keys |-> <<>>]
    /\ disp = <<>>
    /\ written = [k \in Keys |-> <<>>]
    /\ handle = [k \in Keys |-> <<>>]
    /\ reopened = [k \in Keys |-> "no"]

Init == Configured /\ budget = MaxRecv

\* Router.__init__: one socket per configured entry, then every register call
RouterInit ==
    /\ mainpc = "config"
    /\ readonly' = [k \in Keys |-> RouterSockets[k].readonly]
    /\ channels' = RegisterAll([k \in Keys |-> RouterSockets[k].channels], routes)
    /\ nreg' = [k \in Keys |-> [c \in ChanNames |-> CountBindings(routes, k, c)]]
    /\ mainpc' = "built"
    /\ UNCHANGED <<routes, thread, connected, joins, stack, rcv, calls, budget,
                   disp, written, handle, reopened>>

\* socket.start(): Console.start returns; Socket.start launches the thread
StartThread(k) == IF SocketType[k] = "console" THEN "none" ELSE "running"

\* Router.start: socket.start() on every socket
RouterStart ==
    /\ mainpc = "built"
    /\ thread' = [k \in Keys |-> StartThread(k)]
    /\ mainpc' = "started"
    /\ UNCHANGED <<routes, readonly, channels, nreg, connected, joins, stack,
                   rcv, calls, budget, disp, written, handle, reopened>>

-----------------------------------------------------------------------------
(* Handlers running on the sockets' threads *)

\* a join call for every registration, as if _channels were a list
JoinCallsPerRegistration(k, c) == nreg[k][c]

\* for chan in self._channels: join(chan) -- the join calls made for channel c
JoinCalls(k, c) == IF c \in channels[k] THEN 1 ELSE 0

\* IRC.Bot.on_welcome and XMPP._session_start: join every registered channel
Connect(k) ==
    /\ SocketType[k] \in {"irc", "xmpp"}
    /\ thread[k] = "running"
    /\ ~connected[k]
    /\ LoopReady(k)
    /\ connected' = [connected EXCEPT ![k] = TRUE]
    /\ joins' = [joins EXCEPT ![k] =
                    [c \in ChanNames |-> @[c] + JoinCalls(k, c)]]
    /\ UNCHANGED <<routes, readonly, channels, nreg, mainpc, thread,
                   stack, rcv, calls, budget, disp, written, handle, reopened>>

\* <<nick, text>> of the chat lines and of the notices the networks deliver
Chats == { <<NickBob, BodyHi>>, <<NickBob, BodyWho>>, <<NickWhoami, BodyHi>> }
Notices == { <<NickBob, BodyWho>> }

\* config['nick'] of the XMPP socket, the nick its own messages come back under
ConfigNick == <<"s", "l", "o">>

\* <<mucnick, body>> of the groupchat messages a room delivers
RoomChats ==
    { <<NickBob, BodyHi>>, <<NickWhoami, BodyHi>>, <<ConfigNick, BodyHi>> }

Listening(k, type) ==
    /\ SocketType[k] = type
    /\ thread[k] = "running"
    /\ LoopReady(k)

\* IRC.Bot.on_pubmsg: a message on a joined channel
OnPubmsg(k) ==
    /\ Listening(k, "irc")
    /\ connected[k]
    /\ \E target \in channels[k], e \in Chats :
          Receive(k, target, <<"message", e[1], e[2]>>)

\* IRC.Bot.on_notice: a notice to a joined channel, or a server notice to "*"
OnNotice(k) ==
    /\ Listening(k, "irc")
    /\ connected[k]
    /\ \E target \in channels[k] \cup {ChanStar}, e \in Notices :
          Receive(k, target, <<"notice", e[1], e[2]>>)

\* XMPP._message: a groupchat message from a joined room.  The test of
\* msg['mucnick'] against config['nick'] has no statement under it, so the
\* handler goes on to its test of msg['type'] whatever the nick is.
XmppMessage(k) ==
    /\ Listening(k, "xmpp")
    /\ connected[k]
    /\ \E room \in channels[k], e \in RoomChats, type \in {"groupchat"} :
          /\ type = "groupchat"
          /\ Receive(k, room, <<"message", e[1], e[2]>>)

\* FIFO.run leaves its with block by an exception: the handle is closed with
\* what it had read ahead, the except clause logs, and the loop opens again.
Caught(k, why) ==
    /\ handle' = [handle EXCEPT ![k] = <<>>]
    /\ reopened' = [reopened EXCEPT ![k] = why]

\* FIFO.run: open(path) returns once a writer has the path open, and the
\* handle reads what the writer wrote
FifoRead(k) ==
    /\ Listening(k, "fifo")
    /\ handle[k] = <<>>
    /\ \E chunk \in Chunks :
          /\ Len(chunk) <= budget
          /\ budget' = budget - Len(chunk)
          /\ written' = [written EXCEPT ![k] = @ \o chunk]
          /\ handle' = [handle EXCEPT ![k] = chunk]
    /\ UNCHANGED <<routes, readonly, channels, nreg, mainpc, thread, connected,
                   joins, stack, rcv, calls, disp, reopened>>

\* FIFO.run: for line in handle: self.receive("*", ('notice', None, line.strip()))
FifoLine(k) ==
    /\ Listening(k, "fifo")
    /\ handle[k] # <<>>
    /\ LET message == <<"notice", None, Strip(Head(handle[k]))>>
       IN  /\ Deliver(k, ChanStar, message)
           /\ IF SocketReceive(readonly[k], message) = "raise"
              THEN Caught(k, "receive")
              ELSE /\ handle' = [handle EXCEPT ![k] = Tail(@)]
                   /\ UNCHANGED reopened
    /\ UNCHANGED <<budget, written>>

\* FIFO.run: the writers have closed the path, the for loop ends, the with
\* block closes the handle and while(True) opens the path again
FifoEof(k) ==
    /\ Listening(k, "fifo")
    /\ handle[k] = <<>>
    /\ reopened' = [reopened EXCEPT ![k] = "eof"]
    /\ UNCHANGED <<routes, readonly, channels, nreg, mainpc, thread, connected,
                   joins, stack, rcv, calls, budget, disp, written, handle>>

\* FIFO.run: open() or a read raises, the except clause logs and the loop
\* opens the path again
FifoReadFails(k) ==
    /\ Listening(k, "fifo")
    /\ handle[k] = <<>>
    /\ Caught(k, "read")
    /\ UNCHANGED <<routes, readonly, channels, nreg, mainpc, thread, connected,
                   joins, stack, rcv, calls, budget, disp, written>>

\* The except clause of Router.receive formats its log line from dest_key,
\* a name that is not bound in Router.receive: evaluating it raises NameError.
ExceptClause == Raise

\* The loop of Router.receive or Router.users moves on past its current
\* destination, and returns when that was the last one.
Advance(k) ==
    LET f == Head(stack[k])
    IN  IF Tail(f.pending) = <<>>
        THEN /\ rcv' = SetStatus(k, f.n, "returned")
             /\ Returns(k)
             /\ UNCHANGED fifoVars
        ELSE /\ stack' = [stack EXCEPT ![k] =
                    << [f EXCEPT !.pending = Tail(@), !.tested = None] >> \o Tail(@)]
             /\ UNCHANGED <<rcv, written, handle, reopened>>

\* The handler in progress on thread k ends by an exception, which unwinds
\* into the loop of the thread: into the try of FIFO.run on a fifo socket.
Fails(k) ==
    /\ rcv' = SetStatus(k, Head(stack[k]).n, "raised")
    /\ Escapes(k)
    /\ IF SocketType[k] = "fifo"
       THEN Caught(k, "receive") /\ UNCHANGED written
       ELSE UNCHANGED fifoVars

InHandler(k, mode) ==
    /\ thread[k] = "running"
    /\ stack[k] # <<>>
    /\ Head(stack[k]).mode = mode

\* Router.receive: one iteration, dest.send(dest_chan, message)
RouterReceive(k) ==
    /\ InHandler(k, "receive")
    /\ LET f == Head(stack[k])
           dest == Head(f.pending)
           message == rcv[k][f.n].msg
       IN  \E out \in SendOutcomes(dest[1], dest[2], message) :
              /\ calls' = [calls EXCEPT ![dest[1]] =
                              Append(@, Call("send", dest[2], message, k, f.n, out))]
              /\ IF out = Raise /\ ExceptClause = Raise THEN Fails(k) ELSE Advance(k)
    /\ UNCHANGED <<routes, readonly, channels, nreg, mainpc, thread,
                   connected, joins, budget, disp>>

\* Router.users: users = dest.users(dest_chan)
RouterUsersTest(k) ==
    /\ InHandler(k, "users")
    /\ Head(stack[k]).tested = None
    /\ LET f == Head(stack[k])
           dest == Head(f.pending)
       IN  \E users \in UsersOutcomes(dest[1]) :
              /\ calls' = [calls EXCEPT ![dest[1]] =
                              Append(@, Call("users", dest[2], None, k, f.n, users))]
              /\ IF users = Raise THEN Fails(k)
                 ELSE IF users = None THEN Advance(k)
                 ELSE /\ stack' = [stack EXCEPT ![k] =
                             << [f EXCEPT !.tested = users] >> \o Tail(@)]
                      /\ UNCHANGED <<rcv, written, handle, reopened>>
    /\ UNCHANGED <<routes, readonly, channels, nreg, mainpc, thread,
                   connected, joins, budget, disp>>

\* Router.users: source.send(chan, ('message', "...".format(dest.key,
\* ', '.join(dest.users(dest_chan))))), with its second call of dest.users
RouterUsersReply(k) ==
    /\ InHandler(k, "users")
    /\ Head(stack[k]).tested # None
    /\ LET f == Head(stack[k])
           dest == Head(f.pending)
           chan == rcv[k][f.n].chan
       IN  \E users \in UsersOutcomes(dest[1]) :
              LET again == [calls EXCEPT ![dest[1]] =
                               Append(@, Call("users", dest[2], None, k, f.n, users))]
              IN  IF users \in {Raise, None}
                  THEN /\ calls' = again
                       /\ Fails(k)
                  ELSE \E out \in SendOutcomes(k, chan, UsersReply(dest[1], users)) :
                          /\ calls' = [again EXCEPT ![k] =
                                 Append(@, Call("send", chan,
                                            UsersReply(dest[1], users), k, f.n, out))]
                          /\ IF out = Raise THEN Fails(k) ELSE Advance(k)
    /\ UNCHANGED <<routes, readonly, channels, nreg, mainpc, thread,
                   connected, joins, budget, disp>>

Next ==
    \/ RouterInit
    \/ RouterStart
    \/ \E k \in Keys : Connect(k)
    \/ \E k \in Keys : OnPubmsg(k)
    \/ \E k \in Keys : OnNotice(k)
    \/ \E k \in Keys : XmppMessage(k)
    \/ \E k \in Keys : FifoRead(k)
    \/ \E k \in Keys : FifoLine(k)
    \/ \E k \in Keys : RouterReceive(k)
    \/ \E k \in Keys : RouterUsersTest(k)
    \/ \E k \in Keys : RouterUsersReply(k)

\* The program with writers that keep the fifo's path open and reads that
\* do not fail.
Spec == Init /\ [][Next]_vars

\* The program with writers that close the path and reads that fail as well.
NextFifo ==
    \/ Next
    \/ \E k \in Keys : FifoEof(k)
    \/ \E k \in Keys : FifoReadFails(k)

SpecFifo == Init /\ [][NextFifo]_vars

-----------------------------------------------------------------------------
(* Router.dispatch called directly, on sockets built with either flag *)

InitDispatch ==
    /\ routes \in DispatchTables
    /\ \A i \in 1..Len(routes) : IsDict(routes[i]) /\ ValidRoute(routes[i])
    /\ readonly \in [Keys -> BOOLEAN]
    /\ channels = RegisterAll([k \in Keys |-> {}], routes)
    /\ nreg = [k \in Keys |-> [c \in ChanNames |-> CountBindings(routes, k, c)]]
    /\ mainpc = "built"
    /\ thread = [k \in Keys |-> "none"]
    /\ connected = [k \in Keys |-> FALSE]
    /\ joins = [k \in Keys |-> [c \in ChanNames |-> 0]]
    /\ stack = [k \in Keys |-> <<>>]
    /\ rcv = [k \in Keys |-> <<>>]
    /\ calls = [k \in Keys |-> <<>>]
    /\ budget = 0
    /\ disp = <<>>
    /\ written = [k \in Keys |-> <<>>]
    /\ handle = [k \in Keys |-> <<>>]
    /\ reopened = [k \in Keys |-> "no"]

\* list(router.dispatch(source, channel))
DispatchCall ==
    /\ \E src \in Keys, channel \in ChanNames :
          disp' = << [src |-> src, chan |-> channel,
                      out |-> dispatch(routes, readonly, src, channel)] >>
    /\ UNCHANGED <<routes, readonly, channels, nreg, mainpc, thread,
                   connected, joins, stack, rcv, calls, budget, written, handle,
                   reopened>>

NextDispatch == DispatchCall

SpecDispatch == InitDispatch /\ [][NextDispatch]_vars

-----------------------------------------------------------------------------
(* Socket.receive called directly by the run() of a socket, with any message
   of the documented format *)

\* the tuples (type, sender, text) of the docstring of Socket.receive
WellFormed ==
    { <<kind, sender, text>> : kind \in {"message", "notice"},
                               sender \in {None, NickBob, NickWhoami},
                               text \in {BodyHi, BodyWho} }

\* the state once main() has built and started the Router
InitReceive ==
    /\ routes \in RouteTables
    /\ \A i \in 1..Len(routes) : IsDict(routes[i]) /\ ValidRoute(routes[i])
    /\ readonly = [k \in Keys |-> RouterSockets[k].readonly]
    /\ channels = RegisterAll([k \in Keys |-> RouterSockets[k].channels], routes)
    /\ nreg = [k \in Keys |-> [c \in ChanNames |-> CountBindings(routes, k, c)]]
    /\ mainpc = "started"
    /\ thread = [k \in Keys |-> StartThread(k)]
    /\ connected = [k \in Keys |-> FALSE]
    /\ joins = [k \in Keys |-> [c \in ChanNames |-> 0]]
    /\ stack = [k \in Keys |-> <<>>]
    /\ rcv = [k \in Keys |-> <<>>]
    /\ calls = [k \in Keys |-> <<>>]
    /\ budget = MaxRecv
    /\ disp = <<>>
    /\ written = [k \in Keys |-> <<>>]
    /\ handle = [k \in Keys |-> <<>>]
    /\ reopened = [k \in Keys |-> "no"]

\* self.receive(chan, message) called from run() on the thread of socket k
ReceiveCall(k) ==
    /\ thread[k] = "running"
    /\ LoopReady(k)
    /\ \E chan \in channels[k], message \in WellFormed : Receive(k, chan, message)

NextReceive ==
    \/ \E k \in Keys : ReceiveCall(k)
    \/ \E k \in Keys : RouterReceive(k)
    \/ \E k \in Keys : RouterUsersTest(k)
    \/ \E k \in Keys : RouterUsersReply(k)

SpecReceive == InitReceive /\ [][NextReceive]_vars

-----------------------------------------------------------------------------
(* Properties *)

\* route group g holds the item key: chan
Binds(g, key, chan) == \E i \in 1..Len(g) : g[i] = <<key, chan>>

\* the route groups of the table that bind key to chan
GroupsBinding(key, chan) == { i \in 1..Len(routes) : Binds(routes[i], key, chan) }

\* the positions in calls[d] of the op calls made while serving invocation n of k
CallsFor(d, k, n, op) ==
    { i \in 1..Len(calls[d]) :
        calls[d][i].src = k /\ calls[d][i].n = n /\ calls[d][i].op = op }

\* the invocations of Socket.receive made so far
Invocations == UNION { { <<k, n>> : n \in 1..Len(rcv[k]) } : k \in Keys }

\* those that have returned or raised
Finished == { kn \in Invocations : rcv[kn[1]][kn[2]].status # "running" }

\* C1: Router.dispatch(s, c) yields, for each route group binding s.key to c,
\* exactly the entries of other keys whose socket is not readonly, once per
\* such group, nothing from a group that does not bind s.key to c, and never
\* the source itself.
C1_DispatchExact ==
    disp # <<>> =>
        LET r == disp[1]
        IN  /\ \A j \in 1..Len(r.out) : r.out[j][1] # r.src
            /\ \A d \in Keys, dc \in ChanNames :
                  Cardinality({ j \in 1..Len(r.out) : r.out[j] = <<d, dc>> })
                  = IF d = r.src \/ readonly[d] THEN 0
                    ELSE Cardinality({ i \in GroupsBinding(r.src, r.chan) :
                                          Binds(routes[i], d, dc) })

\* a dispatch that yields a destination, from a group that also holds a
\* readonly member, in a table where another group binds the source elsewhere
C1_Witness ==
    /\ disp # <<>>
    /\ disp[1].out # <<>>
    /\ \E i \in GroupsBinding(disp[1].src, disp[1].chan) :
          \E d \in Keys \ {disp[1].src}, dc \in ChanNames :
              readonly[d] /\ Binds(routes[i], d, dc)
    /\ \E i \in 1..Len(routes), c \in ChanNames \ {disp[1].chan} :
          Binds(routes[i], disp[1].src, c)

\* C2: when a destination's send raises in Router.receive, send is still
\* called with the same message on every destination of the dispatch set.
C2_AllDestinationsSent ==
    \A kn \in Finished :
        LET k == kn[1]
            r == rcv[k][kn[2]]
            dests == dispatch(routes, readonly, k, r.chan)
        IN  r.how = "receive" =>
                \A p \in 1..Len(dests) :
                    \E i \in CallsFor(dests[p][1], k, kn[2], "send") :
                        /\ calls[dests[p][1]][i].chan = dests[p][2]
                        /\ calls[dests[p][1]][i].msg = r.msg

\* C3: send is never invoked on a Fifo socket.
C3_NoSendOnFifo ==
    \A d \in Keys : SocketType[d] = "fifo" =>
        \A i \in 1..Len(calls[d]) : calls[d][i].op # "send"

\* C4: on a socket that is not readonly, Socket.receive calls Router.users
\* exactly for the messages of kind 'message' whose text begins with '!who',
\* and Router.receive for every other message.
C4_WhoByText ==
    \A kn \in Invocations :
        LET r == rcv[kn[1]][kn[2]]
            who == r.msg[1] = "message" /\ Slice(r.msg[3], 4) = WhoToken
        IN  r.how = IF who /\ ~readonly[kn[1]] THEN "users" ELSE "receive"

\* the replies of invocation n of k that name destination d
RepliesFor(k, n, d) ==
    { i \in CallsFor(k, k, n, "send") :
        Len(calls[k][i].msg) = 2 /\ calls[k][i].msg[2][2] = d }

\* what the first users call of invocation n of k on d returned
FirstRoster(d, k, n) ==
    LET cs == CallsFor(d, k, n, "users")
    IN  calls[d][CHOOSE i \in cs : \A j \in cs : i <= j].out

\* C5: Router.users calls users on every member of the dispatch set, sends
\* the source exactly one reply listing the roster of each destination that
\* returned one, none for the others, and sends nothing to another socket.
C5_UsersReplies ==
    \A kn \in Finished :
        LET k == kn[1]
            n == kn[2]
            r == rcv[k][n]
            dests == dispatch(routes, readonly, k, r.chan)
        IN  r.how = "users" =>
              /\ \A p \in 1..Len(dests) : CallsFor(dests[p][1], k, n, "users") # {}
              /\ \A d \in Keys \ {k} : CallsFor(d, k, n, "send") = {}
              /\ (\A p, q \in 1..Len(dests) : dests[p][1] = dests[q][1] => p = q) =>
                    \A p \in 1..Len(dests) :
                        LET d == dests[p][1]
                            roster == FirstRoster(d, k, n)
                        IN  IF roster \in Rosters
                            THEN /\ Cardinality(RepliesFor(k, n, d)) = 1
                                 /\ \A i \in RepliesFor(k, n, d) :
                                       /\ calls[k][i].msg = UsersReply(d, roster)
                                       /\ calls[k][i].chan = r.chan
                            ELSE RepliesFor(k, n, d) = {}

\* C6: Router.receive, and so Socket.receive, returns normally for every
\* message, whichever destination sends raise.
C6_ReceiveReturns ==
    \A kn \in Invocations :
        rcv[kn[1]][kn[2]].how = "receive" => rcv[kn[1]][kn[2]].status # "raised"

\* C7: a message received on a (socket, channel) pair that no route group
\* binds causes no call on any socket.
C7_UnboundNoSend ==
    \A kn \in Invocations :
        GroupsBinding(kn[1], rcv[kn[1]][kn[2]].chan) = {} =>
            \A d \in Keys, op \in {"send", "users"} : CallsFor(d, kn[1], kn[2], op) = {}

\* a message handled on an unbound channel of a socket that the table binds
\* under another channel, while other invocations did reach destinations
C7_Witness ==
    \E kn \in Finished :
        /\ GroupsBinding(kn[1], rcv[kn[1]][kn[2]].chan) = {}
        /\ \E c \in ChanNames : GroupsBinding(kn[1], c) # {}
        /\ \E d \in Keys : calls[d] # <<>>

\* C8: every send of Router.receive hands over the message the source passed
\* in; when the only route group binding a/ca is {a: ca, b: cb}, a message m
\* received on a/ca makes exactly one call b.send(cb, m) and none on a.
C8_SameMessageOnce ==
    \A kn \in Invocations :
        LET k == kn[1]
            n == kn[2]
            r == rcv[k][n]
        IN  r.how = "receive" =>
              /\ \A d \in Keys : \A i \in CallsFor(d, k, n, "send") :
                    calls[d][i].msg = r.msg
              /\ CallsFor(k, k, n, "send") = {}
              /\ \A g \in 1..Len(routes) :
                    (GroupsBinding(k, r.chan) = {g} /\ Len(routes[g]) = 2
                        /\ r.status # "running") =>
                    \E b \in Keys \ {k}, cb \in ChanNames :
                        /\ Binds(routes[g], b, cb)
                        /\ Cardinality(CallsFor(b, k, n, "send")) = 1
                        /\ \A i \in CallsFor(b, k, n, "send") :
                              calls[b][i].chan = cb /\ calls[b][i].msg = r.msg
                        /\ \A d \in Keys \ {b} : CallsFor(d, k, n, "send") = {}

\* a chat message with a sender, relayed through a two-member route group
C8_Witness ==
    \E kn \in Finished :
        LET k == kn[1]
            r == rcv[k][kn[2]]
        IN  /\ r.how = "receive"
            /\ r.msg[1] = "message"
            /\ \E g \in 1..Len(routes) :
                  GroupsBinding(k, r.chan) = {g} /\ Len(routes[g]) = 2
            /\ \E b \in Keys \ {k} : CallsFor(b, k, kn[2], "send") # {}

\* C9: when receive is invoked for m1 before m2 on one source channel, every
\* destination that has send called with m2 had send called with m1 before.
C9_SentInReceiveOrder ==
    \A k \in Keys : \A n1, n2 \in 1..Len(rcv[k]) :
        (/\ n1 < n2
         /\ rcv[k][n1].chan = rcv[k][n2].chan
         /\ rcv[k][n1].how = "receive" /\ rcv[k][n2].how = "receive")
        => \A d \in Keys : \A j \in CallsFor(d, k, n2, "send") :
              \E i \in CallsFor(d, k, n1, "send") : i < j

\* The sends that are made are never inverted: of two sends one destination
\* gets for one source channel, the earlier is for the earlier invocation.
SendsNeverInverted ==
    \A d \in Keys : \A i, j \in 1..Len(calls[d]) :
        LET ci == calls[d][i]
            cj == calls[d][j]
        IN  (/\ i < j
             /\ ci.op = "send" /\ cj.op = "send"
             /\ ci.src = cj.src
             /\ rcv[ci.src][ci.n].chan = rcv[cj.src][cj.n].chan)
            => ci.n <= cj.n

\* C10: however often a channel is registered on a socket, it is in the
\* socket's channel set once, and the socket joins it once when it connects.
C10_RegisterIdempotent ==
    mainpc # "config" =>
        \A k \in Keys, c \in ChanNames :
            /\ c \in channels[k] <=> nreg[k][c] >= 1
            /\ connected[k] => joins[k][c] = IF nreg[k][c] >= 1 THEN 1 ELSE 0

\* a connected socket on which one channel was registered more than once
C10_Witness ==
    \E k \in Keys, c \in ChanNames :
        connected[k] /\ nreg[k][c] >= 2 /\ joins[k][c] = 1

\* the sockets of type fifo
Fifos == { k \in Keys : SocketType[k] = "fifo" }

\* C11: every line written to a Fifo's path is handed to receive exactly
\* once, in order, as ("*", (notice, None, line.strip())): the lines delivered
\* so far and the lines the handle still holds are the lines written, also
\* after the loop has reopened the path.
C11_LinesExactlyOnce ==
    \A k \in Fifos :
        /\ Len(rcv[k]) + Len(handle[k]) = Len(written[k])
        /\ \A n \in 1..Len(rcv[k]) :
              /\ n <= Len(written[k])
              /\ rcv[k][n].chan = ChanStar
              /\ rcv[k][n].msg = <<"notice", None, Strip(written[k][n])>>
        /\ \A i \in 1..Len(handle[k]) :
              Len(rcv[k]) + i <= Len(written[k])
              /\ handle[k][i] = written[k][Len(rcv[k]) + i]

\* While no dispatch of a line has raised, the lines are all accounted for.
LinesKeptUnlessRaised ==
    (\A k \in Fifos : \A n \in 1..Len(rcv[k]) : rcv[k][n].status # "raised")
        => C11_LinesExactlyOnce

\* C14: the Fifo's run loop never ends, and it goes back to open() after
\* end-of-stream and after a read failure only, never because of a failure
\* raised while a delivered line is dispatched.
C14_RestartOnlyByRead ==
    \A k \in Fifos :
        /\ mainpc = "started" => thread[k] = "running"
        /\ reopened[k] \in {"no", "eof", "read"}

\* C12: users(channel) of no transport raises: every users call returns a
\* roster or None, so that no roster lookup ends Router.users.
C12_UsersNeverRaises ==
    \A d \in Keys : \A i \in 1..Len(calls[d]) :
        calls[d][i].op = "users" => calls[d][i].out \in Rosters \cup {None}

\* C13: every register call is made by Router.__init__, before start() is
\* called on any socket, with every bound channel registered by then; once
\* the Router is built no step writes a socket's channel set, the route
\* table or the sockets.
C13_RoutingFrozen ==
    [][ /\ (nreg' # nreg \/ channels' # channels) =>
              /\ mainpc = "config"
              /\ \A k \in Keys : thread[k] = "none" /\ thread'[k] = "none"
        /\ mainpc # "config" =>
              /\ routes' = routes /\ channels' = channels
              /\ nreg' = nreg /\ readonly' = readonly
        /\ thread' # thread =>
              \A k \in Keys, c \in ChanNames :
                  /\ c \in channels[k] <=> GroupsBinding(k, c) # {}
                  /\ nreg[k][c] = Cardinality(GroupsBinding(k, c)) ]_vars

\* sockets with registered channels have relayed messages after the start
C13_Witness ==
    /\ mainpc = "started"
    /\ \E k \in Keys : channels[k] # {} /\ connected[k] /\ rcv[k] # <<>>
    /\ \E d \in Keys : calls[d] # <<>>
    /\ \E k \in Keys : Cardinality(channels[k]) = 1 /\ Len(routes) = 2

\* C15: when an IRC or XMPP socket connects, it joins exactly the channels
\* the route table binds to its key.
C15_JoinsBoundChannels ==
    \A k \in Keys : connected[k] =>
        \A c \in ChanNames : joins[k][c] >= 1 <=> GroupsBinding(k, c) # {}

\* a connected socket that joined its channel and not the channel a route
\* group of its own binds to another socket
C15_Witness ==
    \E k \in Keys, c \in ChanNames :
        /\ connected[k] /\ joins[k][c] >= 1
        /\ \E g \in GroupsBinding(k, c) : \E d \in Keys \ {k}, dc \in ChanNames \ {c} :
              Binds(routes[g], d, dc) /\ GroupsBinding(k, dc) = {} /\ joins[k][dc] = 0

\* C16: the XMPP socket never calls receive for a groupchat message whose
\* mucnick is the nick the socket is configured with.
C16_NoOwnEcho ==
    \A k \in Keys : SocketType[k] = "xmpp" =>
        \A n \in 1..Len(rcv[k]) : rcv[k][n].msg[2] # ConfigNick

\* C17: every message passed to a send, by Router.receive or by the reply of
\* Router.users, is a triple (kind, sender, text) with kind message or notice.
C17_SendTriples ==
    \A d \in Keys : \A i \in 1..Len(calls[d]) :
        calls[d][i].op = "send" =>
            /\ Len(calls[d][i].msg) = 3
            /\ calls[d][i].msg[1] \in {"message", "notice"}

\* C18: for one message received on (s, c), the number of send calls made
\* to a destination pair (d, dc) is the number of route groups that bind
\* both s to c and d to dc.
C18_SendPerGroup ==
    \A kn \in Finished :
        LET k == kn[1]
            n == kn[2]
            r == rcv[k][n]
        IN  r.how = "receive" =>
              \A d \in Keys \ {k}, dc \in ChanNames :
                  Cardinality({ i \in CallsFor(d, k, n, "send") : calls[d][i].chan = dc })
                  = Cardinality({ g \in GroupsBinding(k, r.chan) : Binds(routes[g], d, dc) })

\* A Router.receive that returned has made one send per route group.
SendPerGroupWhenReturned ==
    \A kn \in Finished :
        LET k == kn[1]
            n == kn[2]
            r == rcv[k][n]
        IN  (r.how = "receive" /\ r.status = "returned") =>
              \A d \in Keys \ {k}, dc \in ChanNames :
                  Cardinality({ i \in CallsFor(d, k, n, "send") : calls[d][i].chan = dc })
                  = Cardinality({ g \in GroupsBinding(k, r.chan) : Binds(routes[g], d, dc) })

\* C19: one Router.users query reads the roster of each destination once
\* for each time the dispatch yields it.
C19_RosterReadOnce ==
    \A kn \in Invocations :
        LET k == kn[1]
            n == kn[2]
            r == rcv[k][n]
            dests == dispatch(routes, readonly, k, r.chan)
        IN  r.how = "users" =>
              \A d \in Keys :
                  Cardinality(CallsFor(d, k, n, "users"))
                  <= Cardinality({ p \in 1..Len(dests) : dests[p][1] = d })

\* C20: Socket.receive does not fail on a well-formed message, and hands a
\* message of kind 'message' without a sender to Router.receive.
C20_ReceiveAccepts ==
    \A kn \in Invocations :
        LET r == rcv[kn[1]][kn[2]]
        IN  r.msg \in WellFormed =>
              /\ r.how \in {"receive", "users"}
              /\ (r.msg[1] = "message" /\ r.msg[2] = None) => r.how = "receive"

====
